---- MODULE Spec2Model ----
(***************************************************************************)
(* Model of packages/workbox-core/internal/utils/logger.mjs: the Logger    *)
(* singleton, its logLevel setter, the four entry-point getters and the    *)
(* functions they return (plain, groupCollapsed, groupEnd).                *)
(***************************************************************************)
EXTENDS Integers, Sequences, FiniteSets, TLC

(***************************************************************************)
(* JavaScript values.  A value carries the string `typeof` yields for it.  *)
(* A number is NaN or the ratio num/den; den = 0 stands for +/-Infinity.   *)
(***************************************************************************)
Number(n, d) == [type |-> "number", nan |-> FALSE, num |-> n, den |-> d, str |-> ""]

NaN == [type |-> "number", nan |-> TRUE, num |-> 0, den |-> 1, str |-> "NaN"]

Infinity == Number(1, 0)

String(s) == [type |-> "string", nan |-> FALSE, num |-> 0, den |-> 1, str |-> s]

Undefined == [type |-> "undefined", nan |-> FALSE, num |-> 0, den |-> 1, str |-> "undefined"]

Null == [type |-> "object", nan |-> FALSE, num |-> 0, den |-> 1, str |-> "null"]

True == [type |-> "boolean", nan |-> FALSE, num |-> 1, den |-> 1, str |-> "true"]

\* typeof v
typeof(v) == v.type

\* a > b on two number-typed operands: false as soon as one of them is NaN
Gt(a, b) == ~a.nan /\ ~b.nan /\ a.num * b.den > b.num * a.den

\* a < b on two number-typed operands: false as soon as one of them is NaN
Lt(a, b) == ~a.nan /\ ~b.nan /\ a.num * b.den < b.num * a.den

VERBOSE_LOG_LEVEL == 0
DEBUG_LOG_LEVEL == 1
WARNING_LOG_LEVEL == 2
ERROR_LOG_LEVEL == 3

GREY == "#7f8c8d"
GREEN == "#2ecc71"
YELLOW == "#f39c12"
RED == "#c0392b"

\* longest argument list passed to a logging function
MaxArgs == 2

\* the values a caller assigns to logLevel
NewLevels ==
  { Number(-1, 1), Number(0, 1), Number(1, 1), Number(2, 1), Number(3, 1),
    Number(4, 1), Number(3, 2), Number(-1, 2), Number(7, 2), NaN, Infinity,
    String("2"), String("5"), String("verbose"), Undefined, Null, True }

\* the values a caller passes to a logging function
ArgVals == { String("x"), Number(7, 1) }

ArgSeqs == UNION { [1..n -> ArgVals] : n \in 0..MaxArgs }

VARIABLES
  _logLevel,  \* this._logLevel of the singleton
  console,    \* the console invocations made by the operation just performed
  held,       \* the function the caller last read from a getter
  open,       \* the caller's last groupCollapsed call, while the level is untouched
  lastOp      \* the operation just performed: its inputs and its outcome

vars == <<_logLevel, console, held, open, lastOp>>

NoFunc == [name |-> "", func |-> [logFunc |-> "", logLevel |-> 0, color |-> ""], stale |-> FALSE]

NoGroup == [name |-> "", forwarded |-> FALSE]

NoError == ""

\* ToNumber(v), the coercion a relational operator applies to its operands
ToNumber(v) ==
  IF typeof(v) = "number" THEN v
  ELSE IF v = String("2") THEN Number(2, 1)
  ELSE IF v = String("5") THEN Number(5, 1)
  ELSE IF v = Null THEN Number(0, 1)
  ELSE IF v = True THEN Number(1, 1)
  ELSE NaN

\* the setter with the range check placed before the type check
set_logLevel_rangeFirst(self, newLevel) ==
  IF Gt(ToNumber(newLevel), Number(ERROR_LOG_LEVEL, 1))
     \/ Lt(ToNumber(newLevel), Number(VERBOSE_LOG_LEVEL, 1))
    THEN [_logLevel |-> self, threw |-> "invalid-value"]
  ELSE IF typeof(newLevel) # "number"
    THEN [_logLevel |-> self, threw |-> "invalid-type"]
  ELSE [_logLevel |-> newLevel, threw |-> NoError]

\* the setter with >= in place of > in the upper range check
set_logLevel_offByOne(self, newLevel) ==
  IF typeof(newLevel) # "number"
    THEN [_logLevel |-> self, threw |-> "invalid-type"]
  ELSE IF (~newLevel.nan /\ ~Lt(newLevel, Number(ERROR_LOG_LEVEL, 1)))
          \/ Lt(newLevel, Number(VERBOSE_LOG_LEVEL, 1))
    THEN [_logLevel |-> self, threw |-> "invalid-value"]
  ELSE [_logLevel |-> newLevel, threw |-> NoError]

(***************************************************************************)
(* set logLevel(newLevel): the new this._logLevel and the error thrown.    *)
(***************************************************************************)
set_logLevel(self, newLevel) ==
  IF typeof(newLevel) # "number"
    THEN [_logLevel |-> self, threw |-> "invalid-type"]
  ELSE IF Gt(newLevel, Number(ERROR_LOG_LEVEL, 1))
          \/ Lt(newLevel, Number(VERBOSE_LOG_LEVEL, 1))
    THEN [_logLevel |-> self, threw |-> "invalid-value"]
  ELSE [_logLevel |-> newLevel, threw |-> NoError]

\* the two leading values of every console invocation
initLogOutput(levelColor) ==
  << String("%c" \o "U+1F527"),
     String("background: " \o levelColor \o "; border-radius: 100%; color: white;"
            \o "\n        display: block; padding: 2px;") >>

\* _print forwarding the prefix and the styling string without the arguments
_print_dropArgs(self, logFunction, logArgs, minLevel, levelColor) ==
  IF Gt(self, Number(minLevel, 1))
    THEN [_logLevel |-> self, console |-> << >>, threw |-> NoError]
    ELSE [_logLevel |-> self,
          console |-> << [func |-> logFunction,
                          args |-> initLogOutput(levelColor)] >>,
          threw |-> NoError]

\* _print with = in place of > in its test: it assigns minLevel to the level
\* and returns early when the assigned value is truthy
_print_assign(self, logFunction, logArgs, minLevel, levelColor) ==
  IF minLevel # 0
    THEN [_logLevel |-> Number(minLevel, 1), console |-> << >>, threw |-> NoError]
    ELSE [_logLevel |-> Number(minLevel, 1),
          console |-> << [func |-> logFunction,
                          args |-> initLogOutput(levelColor) \o logArgs] >>,
          threw |-> NoError]

(***************************************************************************)
(* _print(logFunction, logArgs, minLevel, levelColor) on a logger whose    *)
(* this._logLevel is self: the level afterwards, the console invocations   *)
(* made and the error thrown.                                              *)
(***************************************************************************)
_print(self, logFunction, logArgs, minLevel, levelColor) ==
  IF Gt(self, Number(minLevel, 1))
    THEN [_logLevel |-> self, console |-> << >>, threw |-> NoError]
    ELSE [_logLevel |-> self,
          console |-> << [func |-> logFunction,
                          args |-> initLogOutput(levelColor) \o logArgs] >>,
          threw |-> NoError]

\* _getLogFunc(logFunc, logLevel, color): what the returned closures capture
_getLogFunc(logFunc, logLevel, color) ==
  [logFunc |-> logFunc, logLevel |-> logLevel, color |-> color]

\* customFunc(...args)
customFunc(f, self, args) ==
  _print(self, f.logFunc, args, f.logLevel, f.color)

\* customFunc.groupCollapsed(...args)
groupCollapsed(f, self, args) ==
  _print(self, "console.groupCollapsed", args, f.logLevel, f.color)

\* groupEnd printing whatever the level is
groupEnd_ungated(f, self, args) ==
  [_logLevel |-> self,
   console |-> << [func |-> "console.groupEnd",
                   args |-> initLogOutput(f.color) \o args] >>,
   threw |-> NoError]

\* customFunc.groupEnd(...args)
groupEnd(f, self, args) ==
  _print(self, "console.groupEnd", args, f.logLevel, f.color)

\* get log()
log == _getLogFunc("console.log", VERBOSE_LOG_LEVEL, GREY)

\* get debug()
debug == _getLogFunc("console.debug", DEBUG_LOG_LEVEL, GREEN)

\* the warn getter handing out the error channel
warn_errorChannel == _getLogFunc("console.error", WARNING_LOG_LEVEL, YELLOW)

\* get warn()
warn == _getLogFunc("console.warn", WARNING_LOG_LEVEL, YELLOW)

\* get error()
error == _getLogFunc("console.error", ERROR_LOG_LEVEL, RED)

Op(op, name, args, value, threw) ==
  [op |-> op, name |-> name, args |-> args, value |-> value,
   before |-> _logLevel, threw |-> threw]

\* new Logger()
Init ==
  /\ _logLevel = Number(VERBOSE_LOG_LEVEL, 1)
  /\ console = << >>
  /\ held = NoFunc
  /\ open = NoGroup
  /\ lastOp = [op |-> "new", name |-> "", args |-> << >>, value |-> Undefined,
               before |-> Undefined, threw |-> NoError]

\* the caller reads one of the getters
Get(name, func) ==
  /\ held' = [name |-> name, func |-> func, stale |-> FALSE]
  /\ console' = << >>
  /\ lastOp' = Op("get", name, << >>, Undefined, NoError)
  /\ UNCHANGED <<_logLevel, open>>

GetLog == Get("log", log)

GetDebug == Get("debug", debug)

GetWarn == Get("warn", warn)

GetError == Get("error", error)

\* logger.logLevel = newLevel
SetLogLevel ==
  \E newLevel \in NewLevels :
    LET r == set_logLevel(_logLevel, newLevel) IN
      /\ _logLevel' = r._logLevel
      /\ console' = << >>
      /\ held' = IF r.threw = NoError /\ held # NoFunc
                   THEN [held EXCEPT !.stale = TRUE] ELSE held
      /\ open' = IF r.threw = NoError THEN NoGroup ELSE open
      /\ lastOp' = Op("set", "", << >>, newLevel, r.threw)

\* the caller calls the function it holds
Call ==
  /\ held # NoFunc
  /\ \E args \in ArgSeqs :
       LET r == customFunc(held.func, _logLevel, args) IN
         /\ _logLevel' = r._logLevel
         /\ console' = r.console
         /\ lastOp' = Op("call", held.name, args, Undefined, r.threw)
         /\ UNCHANGED <<held, open>>

\* the caller calls groupCollapsed of the function it holds
CallGroupCollapsed ==
  /\ held # NoFunc
  /\ \E args \in ArgSeqs :
       LET r == groupCollapsed(held.func, _logLevel, args) IN
         /\ _logLevel' = r._logLevel
         /\ console' = r.console
         /\ open' = [name |-> held.name, forwarded |-> r.console # << >>]
         /\ lastOp' = Op("groupCollapsed", held.name, args, Undefined, r.threw)
         /\ UNCHANGED held

\* the caller calls groupEnd of the function it holds
CallGroupEnd ==
  /\ held # NoFunc
  /\ \E args \in ArgSeqs :
       LET r == groupEnd(held.func, _logLevel, args) IN
         /\ _logLevel' = r._logLevel
         /\ console' = r.console
         /\ lastOp' = Op("groupEnd", held.name, args, Undefined, r.threw)
         /\ UNCHANGED <<held, open>>

Next ==
  \/ GetLog
  \/ GetDebug
  \/ GetWarn
  \/ GetError
  \/ SetLogLevel
  \/ Call
  \/ CallGroupCollapsed
  \/ CallGroupEnd

Spec == Init /\ [][Next]_vars

(***************************************************************************)
(* The vocabulary of the claims.                                           *)
(***************************************************************************)
\* the severity each entry point stands for
Severity(name) ==
  CASE name = "log" -> 0 [] name = "debug" -> 1
    [] name = "warn" -> 2 [] name = "error" -> 3

\* the console channel each entry point belongs to
Channel(name) ==
  CASE name = "log" -> "console.log" [] name = "debug" -> "console.debug"
    [] name = "warn" -> "console.warn" [] name = "error" -> "console.error"

\* the styling string of each entry point
Styling(name) ==
  CASE name = "log" ->
         String("background: #7f8c8d; border-radius: 100%; color: white;\n        display: block; padding: 2px;")
    [] name = "debug" ->
         String("background: #2ecc71; border-radius: 100%; color: white;\n        display: block; padding: 2px;")
    [] name = "warn" ->
         String("background: #f39c12; border-radius: 100%; color: white;\n        display: block; padding: 2px;")
    [] name = "error" ->
         String("background: #c0392b; border-radius: 100%; color: white;\n        display: block; padding: 2px;")

\* the four enumerated thresholds
Thresholds == { Number(0, 1), Number(1, 1), Number(2, 1), Number(3, 1) }

\* T <= S for a threshold T and a severity S; no order relates NaN to S
AtMost(T, S) == ~T.nan /\ T.num <= S * T.den

Plain == lastOp.op = "call"

Grouping == lastOp.op \in {"groupCollapsed", "groupEnd"}

Logging == Plain \/ Grouping

Forwarded == console # << >>

\* C1: a call to the plain entry point for severity S under threshold T is
\* forwarded to the console if and only if T <= S.
C1_PlainForwardedIffAtMost ==
  Plain => (Forwarded <=> AtMost(lastOp.before, Severity(lastOp.name)))

\* C2: the threshold is always one of 0, 1, 2, 3, and an assignment of any
\* other value fails without changing it.
C2_ThresholdEnumerated ==
  /\ _logLevel \in Thresholds
  /\ (lastOp.op = "set" /\ lastOp.value \notin Thresholds)
       => (lastOp.threw # NoError /\ _logLevel = lastOp.before)

\* C3: assigning a value that is not number-typed fails with invalid-type,
\* never invalid-value, and leaves the threshold as it was.
C3_NonNumberInvalidType ==
  (lastOp.op = "set" /\ lastOp.value.type # "number")
    => (lastOp.threw = "invalid-type" /\ _logLevel = lastOp.before)

C3_Witness ==
  /\ lastOp.op = "set"
  /\ lastOp.value = String("5")
  /\ lastOp.threw = "invalid-type"
  /\ lastOp.before = Number(2, 1)
  /\ _logLevel = Number(2, 1)

\* C4: assigning a number below 0 or above 3 fails with invalid-value and
\* keeps the old threshold; assigning 0, 1, 2 or 3 succeeds from any
\* threshold and makes that value the threshold.
C4_RangeCheck ==
  (lastOp.op = "set" /\ lastOp.value.type = "number" /\ ~lastOp.value.nan)
    => /\ (lastOp.value.num < 0 \/ lastOp.value.num > 3 * lastOp.value.den)
            => (lastOp.threw = "invalid-value" /\ _logLevel = lastOp.before)
       /\ lastOp.value \in Thresholds
            => (lastOp.threw = NoError /\ _logLevel = lastOp.value)

C4_Witness ==
  /\ lastOp.op = "set"
  /\ lastOp.value = Number(4, 1)
  /\ lastOp.threw = "invalid-value"
  /\ lastOp.before = Number(3, 1)
  /\ _logLevel = Number(3, 1)

\* C5: a forwarded plain call reaches exactly the console channel of its own
\* severity with that severity's colour, and a call makes at most one
\* console invocation.
C5_OwnChannelAndColour ==
  /\ Len(console) <= 1
  /\ (Plain /\ Forwarded)
       => /\ console[1].func = Channel(lastOp.name)
          /\ console[1].args[2] = Styling(lastOp.name)

C5_Witness ==
  /\ Plain
  /\ lastOp.name = "warn"
  /\ Forwarded
  /\ console[1].func = "console.warn"

\* C6: groupCollapsed and groupEnd of the entry point for S are forwarded
\* iff T <= S, and then to console.groupCollapsed and console.groupEnd
\* with the colour of S.
C6_GroupingSameRule ==
  Grouping
    => /\ Forwarded <=> AtMost(lastOp.before, Severity(lastOp.name))
       /\ Forwarded
            => /\ console[1].func = "console." \o lastOp.op
               /\ console[1].args[2] = Styling(lastOp.name)

\* C7: a forwarded call passes the prefix marker, the styling string and
\* then the original arguments, unchanged in order and number; with no
\* argument it passes the two leading values only.
C7_ArgumentsVerbatim ==
  (Logging /\ Forwarded)
    => /\ Len(console[1].args) = 2 + Len(lastOp.args)
       /\ console[1].args[1] = String("%cU+1F527")
       /\ console[1].args[2] = Styling(lastOp.name)
       /\ \A i \in 1..Len(lastOp.args) : console[1].args[2 + i] = lastOp.args[i]

C7_Witness ==
  /\ Plain
  /\ Forwarded
  /\ lastOp.args = << String("x"), Number(7, 1) >>
  /\ console[1].args[3] = String("x")
  /\ console[1].args[4] = Number(7, 1)

\* C8: a logging call, forwarded or suppressed, ends without an error and
\* leaves the threshold unchanged; only the logLevel assignment raises or
\* changes the threshold.
C8_LoggingNeverFails ==
  lastOp.op \in {"call", "groupCollapsed", "groupEnd", "get"}
    => (lastOp.threw = NoError /\ _logLevel = lastOp.before)

C8_Witness ==
  /\ lastOp.op = "groupCollapsed"
  /\ lastOp.name = "debug"
  /\ lastOp.args = << >>
  /\ ~Forwarded
  /\ _logLevel = Number(3, 1)

\* C9: a function read from a getter before a successful assignment is,
\* when called afterwards, forwarded iff the new threshold <= its severity.
C9_CallTimeThreshold ==
  (Logging /\ held.stale)
    => (Forwarded <=> AtMost(_logLevel, Severity(lastOp.name)))

\* C10: with no successful assignment between a groupCollapsed call and the
\* later groupEnd call of the same severity, both are forwarded or both are
\* suppressed.
C10_GroupPairing ==
  (lastOp.op = "groupEnd" /\ open # NoGroup /\ open.name = lastOp.name)
    => (Forwarded <=> open.forwarded)

C10_Witness ==
  /\ lastOp.op = "groupEnd"
  /\ open # NoGroup
  /\ open.name = lastOp.name
  /\ ~open.forwarded
  /\ ~Forwarded

====
